---- MODULE Spec2Model ----
(***************************************************************************)
(* Model of src/app.py: the NYC taxi dashboard.  The script loads a table  *)
(* of trip records, derives pickup_hour and payment_label, reads three     *)
(* filter widgets, applies filterDate, filterHour and filterPaymentType    *)
(* and builds five figures (constructBar, constructLine, constructHist,    *)
(* constructPie, constructHeat) from the filtered table.                   *)
(*                                                                         *)
(* Representation.  A DataFrame is a sequence of records (row order is the *)
(* frame's row order).  A timestamp is the number of whole hours since     *)
(* 2024-01-01 00:00, which is a Monday.  PU_Zone is a zone number standing *)
(* for the zone name (the code only groups on it).  Money and miles are    *)
(* integers; a mean is an exact fraction in lowest terms.                  *)
(***************************************************************************)
EXTENDS Integers, Sequences, FiniteSets, TLC

VARIABLES
    pc,                 \* the next line of the script to run
    src,                \* the table the filters were first given
    df,                 \* the table named df
    dstart, dend,       \* the date range (line 174)
    hrange,             \* the hour range (line 182)
    selected_payments,  \* the selected payment labels (line 192)
    applied,            \* the filters applied to src so far
    fig_1, fig_2, fig_3, fig_4, fig_5   \* the tables behind the five figures

vars == <<pc, src, df, dstart, dend, hrange, selected_payments,
          applied, fig_1, fig_2, fig_3, fig_4, fig_5>>

(***************************************************************************)
(* Bounds of the model and constants of the program.                       *)
(***************************************************************************)
\* longest table read from the parquet file
MaxLen == 3
\* most distinct pickup zones in a table given to the top-N query
MaxZones == 11
\* zones that may have two trips in such a table
MaxBusy == 3
\* LIMIT 10 of constructBar's query
TopN == 10
\* nbins = 285 of constructHist
nbins == 285
\* a null payment_type (NaN in the float column)
NaN == -1

(***************************************************************************)
(* Helpers on sequences and sets.                                          *)
(***************************************************************************)
Range(s) == {s[i] : i \in DOMAIN s}

RECURSIVE SumSeq(_)
SumSeq(s) == IF s = <<>> THEN 0 ELSE Head(s) + SumSeq(Tail(s))

RECURSIVE SortAsc(_)
SortAsc(S) ==
    IF S = {} THEN <<>>
    ELSE LET m == CHOOSE x \in S : \A y \in S : x <= y
         IN  <<m>> \o SortAsc(S \ {m})

RECURSIVE Insert(_, _)
Insert(v, s) ==
    IF s = <<>> THEN <<v>>
    ELSE IF v <= Head(s) THEN <<v>> \o s
    ELSE <<Head(s)>> \o Insert(v, Tail(s))

RECURSIVE SortValues(_)
SortValues(s) == IF s = <<>> THEN <<>> ELSE Insert(Head(s), SortValues(Tail(s)))

RECURSIVE GCD(_, _)
GCD(a, b) == IF b = 0 THEN a ELSE GCD(b, a % b)

Take(s, n) == IF Len(s) <= n THEN s ELSE SubSeq(s, 1, n)

RECURSIVE IsSubSeq(_, _)
IsSubSeq(s, t) ==
    IF s = <<>> THEN TRUE
    ELSE IF t = <<>> THEN FALSE
    ELSE IF Head(s) = Head(t) THEN IsSubSeq(Tail(s), Tail(t))
    ELSE IsSubSeq(s, Tail(t))

(***************************************************************************)
(* Timestamps: .dt.hour, .dt.date, and the SQL functions HOUR and DAYNAME. *)
(***************************************************************************)
dt_hour(ts) == ts % 24
dt_date(ts) == ts \div 24
HOUR(ts) == ts % 24
day_order == <<"Monday", "Tuesday", "Wednesday", "Thursday",
               "Friday", "Saturday", "Sunday">>
DayIndex(ts) == ((ts \div 24) % 7) + 1
DAYNAME(ts) == day_order[DayIndex(ts)]

(***************************************************************************)
(* payment_map and the derivation of payment_label (lines 188-189).        *)
(***************************************************************************)
payment_map ==
    [c \in {1, 2, 3, 4} |->
        CASE c = 1 -> "Credit Card"
          [] c = 2 -> "Cash"
          [] c = 3 -> "No Charge"
          [] c = 4 -> "Dispute"]

\* variant: no .fillna('Unknown')
LabelNoFallback(code) ==
    IF code \in DOMAIN payment_map THEN payment_map[code] ELSE "NaN"

payment_label_of(code) ==
    IF code \in DOMAIN payment_map THEN payment_map[code] ELSE "Unknown"

(***************************************************************************)
(* The tables the parquet file may hold (line 135).                        *)
(***************************************************************************)
Trip(pickup, ride, zone, fare, dist, ptype) ==
    [tpep_pickup_datetime  |-> pickup,
     tpep_dropoff_datetime |-> pickup + ride,
     PU_Zone               |-> zone,
     fare_amount           |-> fare,
     trip_distance         |-> dist,
     payment_type          |-> ptype]

\* Mon 1 Jan 08h, Mon 1 Jan 08h (dropped off 09h), Tue 2 Jan 23h (dropped
\* off Wed 00h, an outlying distance, an unmapped code), Mon 8 Jan 08h (a
\* null code), Tue 2 Jan 08h.
TripPool ==
    { Trip(8,   0, 1, 10, 1, 1),
      Trip(8,   1, 2, 20, 2, 2),
      Trip(47,  1, 2, 30, 9, 7),
      Trip(176, 0, 3, 20, 1, NaN),
      Trip(32,  1, 3, 10, 3, 1) }

Tables == UNION {[1..n -> TripPool] : n \in 1..MaxLen}

WithPickupHour(r) ==
    [tpep_pickup_datetime  |-> r.tpep_pickup_datetime,
     tpep_dropoff_datetime |-> r.tpep_dropoff_datetime,
     PU_Zone               |-> r.PU_Zone,
     fare_amount           |-> r.fare_amount,
     trip_distance         |-> r.trip_distance,
     payment_type          |-> r.payment_type,
     pickup_hour           |-> dt_hour(r.tpep_pickup_datetime)]

WithPaymentLabel(r) ==
    [tpep_pickup_datetime  |-> r.tpep_pickup_datetime,
     tpep_dropoff_datetime |-> r.tpep_dropoff_datetime,
     PU_Zone               |-> r.PU_Zone,
     fare_amount           |-> r.fare_amount,
     trip_distance         |-> r.trip_distance,
     payment_type          |-> r.payment_type,
     pickup_hour           |-> r.pickup_hour,
     payment_label         |-> payment_label_of(r.payment_type)]

\* df['pickup_hour'] = df['tpep_pickup_datetime'].dt.hour
DerivePickupHourCol(t) == [i \in DOMAIN t |-> WithPickupHour(t[i])]
\* df['payment_label'] = df['payment_type'].map(payment_map).fillna('Unknown')
DerivePaymentLabelCol(t) == [i \in DOMAIN t |-> WithPaymentLabel(t[i])]

(***************************************************************************)
(* The three filters (lines 107-124).                                      *)
(***************************************************************************)
\* variant: the bounds counted in days from the table's first pickup date
filterDateFromFirstDay(t, start, end) ==
    LET first == CHOOSE d \in {dt_date(t[i].tpep_pickup_datetime) : i \in DOMAIN t} :
                     \A i \in DOMAIN t : d <= dt_date(t[i].tpep_pickup_datetime)
    IN  SelectSeq(t, LAMBDA r : dt_date(r.tpep_pickup_datetime) - first >= start
                                /\ dt_date(r.tpep_pickup_datetime) - first <= end)

\* variant: | in place of & between the two comparisons
filterDateEitherBound(t, start, end) ==
    SelectSeq(t, LAMBDA r : dt_date(r.tpep_pickup_datetime) >= start
                            \/ dt_date(r.tpep_pickup_datetime) <= end)

filterDate(t, start, end) ==
    SelectSeq(t, LAMBDA r : dt_date(r.tpep_pickup_datetime) >= start
                            /\ dt_date(r.tpep_pickup_datetime) <= end)

filterHour(t, range) ==
    SelectSeq(t, LAMBDA r : r.pickup_hour >= range[1]
                            /\ r.pickup_hour <= range[2])

\* variant: the table itself when no row carries a selected label
filterPaymentTypeOrAll(t, selection) ==
    LET kept == SelectSeq(t, LAMBDA r : r.payment_label \in selection)
    IN  IF kept = <<>> THEN t ELSE kept

filterPaymentType(t, selection) ==
    SelectSeq(t, LAMBDA r : r.payment_label \in selection)

(***************************************************************************)
(* constructBar (lines 8-20): GROUP BY PU_Zone, the row COUNT, ORDER BY    *)
(* that count DESC, LIMIT 10.  The query names no second sort key, so SQL  *)
(* leaves the order of zones with equal counts open: it is whatever order  *)
(* the engine's hash aggregation and sort happen to produce.  The model    *)
(* takes that order from a family of total orders on the zones (each       *)
(* rotation of the zone numbers, upwards and downwards).                   *)
(***************************************************************************)
ZoneModulus == MaxZones + 1
TieOrders == {<<dir, salt>> : dir \in {"up", "down"}, salt \in 0..MaxZones}
TieRank(z, tie) ==
    IF tie[1] = "up" THEN (z + tie[2]) % ZoneModulus
    ELSE (ZoneModulus - z + tie[2]) % ZoneModulus

ZoneCount(t, z) == Cardinality({i \in DOMAIN t : t[i].PU_Zone = z})

\* variant: ORDER BY Number_Of_Trips without DESC
SortKeyAscending(count, rank, n) == count * ZoneModulus + rank

\* ORDER BY Number_Of_Trips DESC among n rows: a smaller key comes first,
\* and equal counts come in the order of their ranks
SortKey(count, rank, n) == (n - count) * ZoneModulus + rank

\* LIMIT 10
Limit(rows) == Take(rows, TopN)

BarQuery(t, tie) ==
    LET G    == {t[i].PU_Zone : i \in DOMAIN t}
        keys == SortAsc({SortKey(ZoneCount(t, z), TieRank(z, tie), Len(t)) : z \in G})
        zone(k) == CHOOSE z \in G : TieRank(z, tie) = keys[k] % ZoneModulus
    IN  Limit([k \in DOMAIN keys |->
                 [PU_Zone |-> zone(k), Number_Of_Trips |-> ZoneCount(t, zone(k))]])

\* the results the query may return for table t
constructBar(t) == {BarQuery(t, tie) : tie \in TieOrders}

(***************************************************************************)
(* constructLine (lines 32-43): GROUP BY HOUR(tpep_dropoff_datetime),      *)
(* AVG(fare_amount), ORDER BY hour.                                        *)
(***************************************************************************)
Fraction(n, d) == LET g == GCD(n, d) IN [num |-> n \div g, den |-> d \div g]

AVG(vals) == Fraction(SumSeq(vals), Len(vals))

\* variant: HOUR(tpep_pickup_datetime)
LineHourOfPickup(r) == HOUR(r.tpep_pickup_datetime)

\* HOUR(tpep_dropoff_datetime) as hour
LineHour(r) == HOUR(r.tpep_dropoff_datetime)

constructLine(t) ==
    LET hours == SortAsc({LineHour(t[i]) : i \in DOMAIN t})
        fares(h) == LET g == SelectSeq(t, LAMBDA r : LineHour(r) = h)
                    IN  [i \in DOMAIN g |-> g[i].fare_amount]
    IN  [k \in DOMAIN hours |->
            [hour |-> hours[k], avg_fare |-> AVG(fares(hours[k]))]]

(***************************************************************************)
(* constructHist (lines 54-64): the 0.99 quantile of trip_distance (linear *)
(* interpolation between the order statistics), the rows at or below it,   *)
(* and a histogram figure asked for with nbins = 285.                      *)
(***************************************************************************)
\* 100 times Series.quantile(0.99) of a non-empty column
Quantile99x100(vals) ==
    LET s   == SortValues(vals)
        pos == 99 * (Len(s) - 1)
        lo  == pos \div 100
        fr  == pos % 100
    IN  IF fr = 0 THEN 100 * s[lo + 1]
        ELSE 100 * s[lo + 1] + fr * (s[lo + 2] - s[lo + 1])

\* df[df["trip_distance"] <= max_distance]; the quantile of an empty column
\* is NaN, and no value is <= NaN
Clip(t) ==
    IF t = <<>> THEN <<>>
    ELSE LET q == Quantile99x100([i \in DOMAIN t |-> t[i].trip_distance])
         IN  SelectSeq(t, LAMBDA r : 100 * r.trip_distance <= q)

constructHist(t) ==
    LET rows == Clip(t)
    IN  [x |-> [i \in DOMAIN rows |-> rows[i].trip_distance], nbinsx |-> nbins]

(***************************************************************************)
(* The bins the figure is drawn with.  constructHist computes none: the    *)
(* chart library takes nbinsx as the largest number of bins wanted and     *)
(* picks the bin size itself, the smallest of 1, 2, 5 times a power of ten *)
(* above span / nbinsx (size 1 when the span is 0), centring the first bin *)
(* on the smallest value when all values are whole numbers.  Sizes and     *)
(* edges are in 1/10000 mile.  Spans are below nbinsx miles here.          *)
(***************************************************************************)
SeqMin(x) == CHOOSE v \in Range(x) : \A w \in Range(x) : v <= w
SeqMax(x) == CHOOSE v \in Range(x) : \A w \in Range(x) : v >= w
NiceSizes == {m * p : m \in {1, 2, 5}, p \in {1, 10, 100, 1000, 10000, 100000}}
BinSize(fig) ==
    LET span == SeqMax(fig.x) - SeqMin(fig.x)
    IN  IF span = 0 THEN 10000
        ELSE CHOOSE n \in NiceSizes :
                 /\ n * fig.nbinsx > span * 10000
                 /\ \A m \in NiceSizes : m * fig.nbinsx > span * 10000 => n <= m
BinStart(fig) == SeqMin(fig.x) * 10000 - BinSize(fig) \div 2
HistBins(fig) ==
    IF fig.x = <<>> THEN <<>>
    ELSE LET size  == BinSize(fig)
             start == BinStart(fig)
             n     == 1 + (SeqMax(fig.x) * 10000 - start) \div size
         IN  [k \in 1..n |->
                [lower |-> start + (k - 1) * size,
                 upper |-> start + k * size,
                 count |-> Cardinality({i \in DOMAIN fig.x :
                              /\ start + (k - 1) * size <= fig.x[i] * 10000
                              /\ fig.x[i] * 10000 < start + k * size})]]

(***************************************************************************)
(* constructPie (lines 66-68): value_counts of payment_label, the labels   *)
(* by falling count, equal counts in order of first appearance.            *)
(***************************************************************************)
LabelCount(t, l) == Cardinality({i \in DOMAIN t : t[i].payment_label = l})
FirstRow(t, l) == CHOOSE i \in DOMAIN t :
                      /\ t[i].payment_label = l
                      /\ \A j \in DOMAIN t : t[j].payment_label = l => i <= j

\* variant: value_counts over a categorical column, every label listed
constructPieAllLabels(t) ==
    LET labels == <<"Credit Card", "Cash", "No Charge", "Dispute", "Unknown">>
    IN  [k \in DOMAIN labels |->
            [payment_label |-> labels[k], count |-> LabelCount(t, labels[k])]]

constructPie(t) ==
    LET n    == Len(t)
        keys == SortAsc({(n - LabelCount(t, t[i].payment_label)) * (n + 1)
                           + FirstRow(t, t[i].payment_label) : i \in DOMAIN t})
        lab(k) == t[keys[k] % (n + 1)].payment_label
    IN  [k \in DOMAIN keys |->
            [payment_label |-> lab(k), count |-> LabelCount(t, lab(k))]]

(***************************************************************************)
(* constructHeat (lines 78-90): GROUP BY DAYNAME, HOUR of the pickup time, *)
(* the row COUNT, ORDER BY hour.  Rows of one hour come in the order of    *)
(* the days of the week, forwards or backwards (the query leaves it open). *)
(***************************************************************************)
\* variant: GROUP BY hour alone
HeatGroupByHourOnly(t, d, h) ==
    Cardinality({i \in DOMAIN t : HOUR(t[i].tpep_pickup_datetime) = h})

\* the rows of group (day d, hour h)
HeatCount(t, d, h) ==
    Cardinality({i \in DOMAIN t : /\ DayIndex(t[i].tpep_pickup_datetime) = d
                                  /\ HOUR(t[i].tpep_pickup_datetime) = h})

HeatQuery(t, dir) ==
    LET key(r) == 8 * HOUR(r.tpep_pickup_datetime)
                    + (IF dir = "up" THEN DayIndex(r.tpep_pickup_datetime)
                       ELSE 8 - DayIndex(r.tpep_pickup_datetime))
        keys   == SortAsc({key(t[i]) : i \in DOMAIN t})
        day(k) == IF dir = "up" THEN keys[k] % 8 ELSE 8 - (keys[k] % 8)
    IN  [k \in DOMAIN keys |->
            [day_of_week |-> day_order[day(k)],
             hour        |-> keys[k] \div 8,
             trip_count  |-> HeatCount(t, day(k), keys[k] \div 8)]]

constructHeat(t) == {HeatQuery(t, dir) : dir \in {"up", "down"}}

(***************************************************************************)
(* The script, top to bottom (lines 135-244).  pc names the line to run    *)
(* next.  The widgets hand back values inside their limits: a date range   *)
(* between the first and last pickup date with start <= end, an hour range *)
(* within 0..23 with low <= high, and a subset of the labels present.      *)
(***************************************************************************)
NoFig == <<>>
NoHist == [x |-> <<>>, nbinsx |-> nbins]
figs == <<fig_1, fig_2, fig_3, fig_4, fig_5>>
widgets == <<dstart, dend, hrange, selected_payments>>

DateMarks == {dt_date(r.tpep_pickup_datetime) : r \in TripPool}
HourMarks == {0, 8, 23}

Init ==
    /\ pc = "L137"
    /\ df \in Tables
    /\ src = <<>>
    /\ dstart = 0 /\ dend = 0
    /\ hrange = <<0, 23>>
    /\ selected_payments = {}
    /\ applied = {}
    /\ fig_1 = NoFig /\ fig_2 = NoFig /\ fig_3 = NoHist
    /\ fig_4 = NoFig /\ fig_5 = NoFig

\* line 137
DerivePickupHour ==
    /\ pc = "L137"
    /\ df' = DerivePickupHourCol(df)
    /\ pc' = "L174"
    /\ UNCHANGED <<src, widgets, applied, figs>>

\* lines 171-179
DateInput ==
    /\ pc = "L174"
    /\ LET dates    == {dt_date(df[i].tpep_pickup_datetime) : i \in DOMAIN df}
           min_date == CHOOSE d \in dates : \A e \in dates : d <= e
           max_date == CHOOSE d \in dates : \A e \in dates : d >= e
       IN  \E s, e \in DateMarks :
               /\ min_date <= s /\ s <= e /\ e <= max_date
               /\ dstart' = s
               /\ dend' = e
    /\ pc' = "L182"
    /\ UNCHANGED <<src, df, hrange, selected_payments, applied, figs>>

\* lines 182-185
HourSlider ==
    /\ pc = "L182"
    /\ \E lo, hi \in HourMarks : lo <= hi /\ hrange' = <<lo, hi>>
    /\ pc' = "L189"
    /\ UNCHANGED <<src, df, dstart, dend, selected_payments, applied, figs>>

\* lines 188-189
DerivePaymentLabel ==
    /\ pc = "L189"
    /\ df' = DerivePaymentLabelCol(df)
    /\ pc' = "L192"
    /\ UNCHANGED <<src, widgets, applied, figs>>

\* lines 190-196
MultiSelect ==
    /\ pc = "L192"
    /\ LET available_payments == {df[i].payment_label : i \in DOMAIN df}
       IN  selected_payments' \in SUBSET available_payments
    /\ pc' = "L198"
    /\ UNCHANGED <<src, df, dstart, dend, hrange, applied, figs>>

\* line 198
FilterDateStep ==
    /\ pc = "L198"
    /\ df' = filterDate(df, dstart, dend)
    /\ pc' = "L199"
    /\ UNCHANGED <<src, widgets, applied, figs>>

\* line 199
FilterHourStep ==
    /\ pc = "L199"
    /\ df' = filterHour(df, hrange)
    /\ pc' = "L200"
    /\ UNCHANGED <<src, widgets, applied, figs>>

\* line 200
FilterPaymentStep ==
    /\ pc = "L200"
    /\ df' = filterPaymentType(df, selected_payments)
    /\ pc' = "L211"
    /\ UNCHANGED <<src, widgets, applied, figs>>

\* line 211
Tab1 ==
    /\ pc = "L211"
    /\ fig_1' \in constructBar(df)
    /\ pc' = "L219"
    /\ UNCHANGED <<src, df, widgets, applied, fig_2, fig_3, fig_4, fig_5>>

\* line 219
Tab2 ==
    /\ pc = "L219"
    /\ fig_2' = constructLine(df)
    /\ pc' = "L228"
    /\ UNCHANGED <<src, df, widgets, applied, fig_1, fig_3, fig_4, fig_5>>

\* line 228
Tab3 ==
    /\ pc = "L228"
    /\ fig_3' = constructHist(df)
    /\ pc' = "L235"
    /\ UNCHANGED <<src, df, widgets, applied, fig_1, fig_2, fig_4, fig_5>>

\* line 235
Tab4 ==
    /\ pc = "L235"
    /\ fig_4' = constructPie(df)
    /\ pc' = "L243"
    /\ UNCHANGED <<src, df, widgets, applied, fig_1, fig_2, fig_3, fig_5>>

\* line 243
Tab5 ==
    /\ pc = "L243"
    /\ fig_5' \in constructHeat(df)
    /\ pc' = "done"
    /\ UNCHANGED <<src, df, widgets, applied, fig_1, fig_2, fig_3, fig_4>>

Next ==
    \/ DerivePickupHour
    \/ DateInput
    \/ HourSlider
    \/ DerivePaymentLabel
    \/ MultiSelect
    \/ FilterDateStep
    \/ FilterHourStep
    \/ FilterPaymentStep
    \/ Tab1
    \/ Tab2
    \/ Tab3
    \/ Tab4
    \/ Tab5

Spec == Init /\ [][Next]_vars

\* the lines of the script in the order they run
Lines == <<"L137", "L174", "L182", "L189", "L192", "L198", "L199", "L200",
           "L211", "L219", "L228", "L235", "L243", "done">>
LineNo(l) == CHOOSE k \in DOMAIN Lines : Lines[k] = l
\* the script has run line l
Past(l) == pc \in Range(Lines) /\ LineNo(pc) > LineNo(l)

(***************************************************************************)
(* The filters as functions: each may be called on any table, in any       *)
(* order, with any arguments, also ones the widgets never hand over (a     *)
(* start date after the end date, hour bounds outside 0..23).              *)
(***************************************************************************)
DateArgs == {0, 1}
HourArgs == {-1, 8, 24}
LabelArgs == {{}, {"Cash"}, {"Credit Card", "Unknown"},
              {"Credit Card", "Cash", "Unknown", "Dispute"}}

InitFilters ==
    /\ pc = "filters"
    /\ src \in {DerivePaymentLabelCol(DerivePickupHourCol(t)) : t \in Tables}
    /\ df = src
    /\ dstart \in DateArgs /\ dend \in DateArgs
    /\ hrange \in HourArgs \X HourArgs
    /\ selected_payments \in LabelArgs
    /\ applied = {}
    /\ fig_1 = NoFig /\ fig_2 = NoFig /\ fig_3 = NoHist
    /\ fig_4 = NoFig /\ fig_5 = NoFig

CallFilterDate ==
    /\ pc = "filters"
    /\ "date" \notin applied
    /\ df' = filterDate(df, dstart, dend)
    /\ applied' = applied \cup {"date"}
    /\ UNCHANGED <<pc, src, widgets, figs>>

CallFilterHour ==
    /\ pc = "filters"
    /\ "hour" \notin applied
    /\ df' = filterHour(df, hrange)
    /\ applied' = applied \cup {"hour"}
    /\ UNCHANGED <<pc, src, widgets, figs>>

CallFilterPaymentType ==
    /\ pc = "filters"
    /\ "payment" \notin applied
    /\ df' = filterPaymentType(df, selected_payments)
    /\ applied' = applied \cup {"payment"}
    /\ UNCHANGED <<pc, src, widgets, figs>>

NextFilters == CallFilterDate \/ CallFilterHour \/ CallFilterPaymentType

SpecFilters == InitFilters /\ [][NextFilters]_vars

(***************************************************************************)
(* The top-N query as a function, on tables with up to MaxZones zones: it  *)
(* may be run again on the same table, and the table's rows may come in    *)
(* another order.                                                          *)
(***************************************************************************)
ZoneTrip(z) == WithPaymentLabel(WithPickupHour(Trip(8, 0, z, 10, 1, 1)))

RECURSIVE ZoneTable(_, _)
ZoneTable(c, k) ==
    IF k = 0 THEN <<>>
    ELSE ZoneTable(c, k - 1) \o [i \in 1..c[k] |-> ZoneTrip(k)]

\* the first MaxBusy zones have one or two trips, the others one
ZoneTables ==
    UNION {{ZoneTable(c, k) :
               c \in {f \in [1..k -> {1, 2}] : \A z \in 1..k : z > MaxBusy => f[z] = 1}}
           : k \in 0..MaxZones}

Reverse(t) == [i \in DOMAIN t |-> t[Len(t) + 1 - i]]

InitBar ==
    /\ pc = "bar"
    /\ df \in ZoneTables
    /\ src = df
    /\ dstart = 0 /\ dend = 0
    /\ hrange = <<0, 23>>
    /\ selected_payments = {}
    /\ applied = {}
    /\ fig_1 = NoFig /\ fig_2 = NoFig /\ fig_3 = NoHist
    /\ fig_4 = NoFig /\ fig_5 = NoFig

RunBar ==
    /\ pc \in {"bar", "bar_shown"}
    /\ fig_1' \in constructBar(df)
    /\ pc' = "bar_shown"
    /\ UNCHANGED <<src, df, widgets, applied, fig_2, fig_3, fig_4, fig_5>>

Reorder ==
    /\ pc \in {"bar", "bar_shown"}
    /\ df' = Reverse(df)
    /\ UNCHANGED <<pc, src, widgets, applied, figs>>

NextBar == RunBar \/ Reorder

SpecBar == InitBar /\ [][NextBar]_vars

(***************************************************************************)
(* The claims.                                                             *)
(***************************************************************************)
AllFilters == {"date", "hour", "payment"}

\* C1: whatever filters have been applied to src, with whatever arguments,
\* df holds only rows of src, unaltered and in src's order, and applying any
\* of those filters again with the same arguments to df returns df.
C1_FilterSubsetIdempotent ==
    pc = "filters" =>
        /\ IsSubSeq(df, src)
        /\ "date" \in applied => filterDate(df, dstart, dend) = df
        /\ "hour" \in applied => filterHour(df, hrange) = df
        /\ "payment" \in applied => filterPaymentType(df, selected_payments) = df

\* a filter has dropped some rows of a table and kept others
C1_Witness ==
    /\ pc = "filters"
    /\ applied # {}
    /\ df # <<>>
    /\ Len(df) < Len(src)

\* C2: in whichever order the three filters were applied, the table left is
\* the one the program's order (date, hour, payment) gives.
C2_OrderIndependent ==
    (pc = "filters" /\ applied = AllFilters) =>
        df = filterPaymentType(filterHour(filterDate(src, dstart, dend), hrange),
                               selected_payments)

\* all three filters have run and each of them alone drops a row of src
C2_Witness ==
    /\ pc = "filters"
    /\ applied = AllFilters
    /\ df # <<>>
    /\ \E i \in DOMAIN src : dt_date(src[i].tpep_pickup_datetime) > dend
    /\ \E i \in DOMAIN src : src[i].pickup_hour > hrange[2]
    /\ \E i \in DOMAIN src : src[i].payment_label \notin selected_payments

\* C3, as claimed: a start date after the end date, or hour bounds that are
\* invalid (one outside 0..23, or low above high), leave an empty table.
C3_InvalidRangeEmpty ==
    pc = "filters" =>
        /\ ("date" \in applied /\ dstart > dend) => df = <<>>
        /\ ("hour" \in applied
              /\ (hrange[1] < 0 \/ hrange[2] > 23 \/ hrange[1] > hrange[2]))
           => df = <<>>

\* C3, amended: a start date after the end date, a low hour above the high
\* hour, and hour bounds both below 0 or both above 23 leave an empty table;
\* hour bounds from below 0 to above 23 keep every row.
C3_LiteralRange ==
    pc = "filters" =>
        /\ ("date" \in applied /\ dstart > dend) => df = <<>>
        /\ ("hour" \in applied /\ hrange[1] > hrange[2]) => df = <<>>
        /\ ("hour" \in applied /\ (hrange[2] < 0 \/ hrange[1] > 23)) => df = <<>>
        /\ (applied = {"hour"} /\ hrange[1] < 0 /\ hrange[2] > 23) => df = src

\* filterHour has run alone with bounds -1 and 24 and kept the whole table;
\* in another run filterDate has emptied a table with start after end
C3_Witness ==
    /\ pc = "filters"
    /\ src # <<>>
    /\ \/ applied = {"hour"} /\ hrange[1] < 0 /\ hrange[2] > 23 /\ df = src
       \/ applied = {"date"} /\ dstart > dend /\ df = <<>>

\* C4: the top-N table has min(10, distinct zones) rows, one per zone shown,
\* each with the number of the table's rows of that zone, counts never
\* rising down the table, and no zone left out has more trips than one shown.
C4_TopN ==
    pc = "bar_shown" =>
        LET G        == {df[i].PU_Zone : i \in DOMAIN df}
            shown    == {fig_1[k].PU_Zone : k \in DOMAIN fig_1}
            trips(z) == Cardinality({i \in DOMAIN df : df[i].PU_Zone = z})
        IN  /\ Len(fig_1) = IF Cardinality(G) < 10 THEN Cardinality(G) ELSE 10
            /\ shown \subseteq G
            /\ Cardinality(shown) = Len(fig_1)
            /\ \A k \in DOMAIN fig_1 :
                   fig_1[k].Number_Of_Trips = trips(fig_1[k].PU_Zone)
            /\ \A k \in 1..(Len(fig_1) - 1) :
                   fig_1[k].Number_Of_Trips >= fig_1[k + 1].Number_Of_Trips
            /\ \A z \in G \ shown : \A k \in DOMAIN fig_1 :
                   trips(z) <= fig_1[k].Number_Of_Trips

\* more than ten zones, unequal counts in the table, and a zone left out
\* that has as many trips as the last zone shown
C4_Witness ==
    /\ pc = "bar_shown"
    /\ Cardinality({df[i].PU_Zone : i \in DOMAIN df}) > 10
    /\ Len(fig_1) = 10
    /\ fig_1[1].Number_Of_Trips = 2
    /\ fig_1[10].Number_Of_Trips = 1

\* C5: running the top-N query again over the same records (in the same or
\* another row order) gives the same rows in the same order.
C5_SameRowsEveryRun ==
    [][(pc = "bar_shown" /\ pc' = "bar_shown") => fig_1' = fig_1]_vars

\* C6: the hourly table has exactly one row for each dropoff hour of df, in
\* rising hour order, and each row's value is the sum of the fares of the
\* rows dropped off in that hour divided by their number.
C6_HourlyMean ==
    Past("L219") =>
        LET H == {df[i].tpep_dropoff_datetime % 24 : i \in DOMAIN df}
            fares(h) == LET g == SelectSeq(df,
                                   LAMBDA r : r.tpep_dropoff_datetime % 24 = h)
                        IN  [i \in DOMAIN g |-> g[i].fare_amount]
        IN  /\ {fig_2[k].hour : k \in DOMAIN fig_2} = H
            /\ Len(fig_2) = Cardinality(H)
            /\ H \subseteq 0..23
            /\ \A k \in 1..(Len(fig_2) - 1) : fig_2[k].hour < fig_2[k + 1].hour
            /\ \A k \in DOMAIN fig_2 :
                   /\ fig_2[k].avg_fare.den > 0
                   /\ fig_2[k].avg_fare.num * Len(fares(fig_2[k].hour))
                        = fig_2[k].avg_fare.den * SumSeq(fares(fig_2[k].hour))

\* fares 10 and 20 averaged to 15 in one dropoff hour, and a row for a
\* dropoff hour above the hour filter's range
C6_Witness ==
    /\ Past("L219")
    /\ \E k \in DOMAIN fig_2 : fig_2[k].avg_fare = [num |-> 15, den |-> 1]
    /\ \E k \in DOMAIN fig_2 : fig_2[k].hour > hrange[2]

\* C7: the pie table's counts add up to the number of rows of df and its
\* labels are the labels present in df; the heat table's counts add up to
\* the number of rows of df, no (day, hour) pair comes twice, and every
\* count is at least 1.
C7_CountsConserved ==
    /\ Past("L235") =>
          /\ SumSeq([k \in DOMAIN fig_4 |-> fig_4[k].count]) = Len(df)
          /\ {fig_4[k].payment_label : k \in DOMAIN fig_4}
                = {df[i].payment_label : i \in DOMAIN df}
    /\ Past("L243") =>
          /\ SumSeq([k \in DOMAIN fig_5 |-> fig_5[k].trip_count]) = Len(df)
          /\ \A j, k \in DOMAIN fig_5 :
                 (fig_5[j].day_of_week = fig_5[k].day_of_week
                    /\ fig_5[j].hour = fig_5[k].hour) => j = k
          /\ \A k \in DOMAIN fig_5 : fig_5[k].trip_count >= 1

\* two labels in the pie table; two days in one hour of the heat table, and
\* a (day, hour) pair with two trips
C7_Witness ==
    /\ pc = "done"
    /\ Len(fig_4) >= 2
    /\ \E j, k \in DOMAIN fig_5 :
           fig_5[j].hour = fig_5[k].hour
             /\ fig_5[j].day_of_week # fig_5[k].day_of_week
    /\ \E k \in DOMAIN fig_5 : fig_5[k].trip_count >= 2

\* C8: the histogram is over the rows at or below the 0.99 quantile and has
\* exactly 285 bins of one width, each starting where the one before ends,
\* from the smallest to the largest distance of those rows, and the bin
\* counts add up to the number of those rows.
C8_Histogram285Bins ==
    (Past("L228") /\ fig_3.x # <<>>) =>
        LET bins == HistBins(fig_3)
            kept == Clip(df)
        IN  /\ fig_3.x = [i \in DOMAIN kept |-> kept[i].trip_distance]
            /\ Len(bins) = 285
            /\ bins[1].lower = SeqMin(fig_3.x) * 10000
            /\ bins[Len(bins)].upper = SeqMax(fig_3.x) * 10000
            /\ \A k \in 1..(Len(bins) - 1) : bins[k].upper = bins[k + 1].lower
            /\ \A j, k \in DOMAIN bins :
                   bins[j].upper - bins[j].lower = bins[k].upper - bins[k].lower
            /\ SumSeq([k \in DOMAIN bins |-> bins[k].count]) = Len(fig_3.x)

\* C9: on an empty filtered table every figure that has been built has an
\* empty table behind it, and the script goes on to its end.
C9_EmptyInEmptyOut ==
    df = <<>> =>
        /\ Past("L211") => fig_1 = <<>>
        /\ Past("L219") => fig_2 = <<>>
        /\ Past("L228") => (fig_3.x = <<>> /\ HistBins(fig_3) = <<>>)
        /\ Past("L235") => fig_4 = <<>>
        /\ Past("L243") => fig_5 = <<>>
        /\ pc \in {"L211", "L219", "L228", "L235", "L243"} => ENABLED Next

\* the script has ended on a table the filters left empty
C9_Witness ==
    /\ pc = "done"
    /\ df = <<>>
    /\ fig_1 = <<>> /\ fig_5 = <<>>

\* C10: from the first filter on, every row's payment_label is the label of
\* its payment_type (Unknown for a code outside 1..4 and for a null code)
\* and its pickup_hour is the hour of its pickup time.
C10_DerivedFieldsFixed ==
    Past("L192") =>
        \A i \in DOMAIN df :
            /\ df[i].payment_label =
                  CASE df[i].payment_type = 1 -> "Credit Card"
                    [] df[i].payment_type = 2 -> "Cash"
                    [] df[i].payment_type = 3 -> "No Charge"
                    [] df[i].payment_type = 4 -> "Dispute"
                    [] OTHER -> "Unknown"
            /\ df[i].pickup_hour \in 0..23
            /\ df[i].tpep_pickup_datetime
                  = 24 * (df[i].tpep_pickup_datetime \div 24) + df[i].pickup_hour

\* the script has ended with a row of code 7 and a row with a null code
C10_Witness ==
    /\ pc = "done"
    /\ \E i \in DOMAIN df : df[i].payment_type = 7
    /\ \E i \in DOMAIN df : df[i].payment_type = NaN

====
